---- MODULE Spec2Model ----
(***************************************************************************)
(* MediocreMap (src/lib.rs): a Vec of optional chains, indexed directly by *)
(* the XOR of the key's bytes.  The model keeps the bucket vector, the     *)
(* vector as it was before the last call, the last call with its result,   *)
(* and the key of the call before that when that call was an insert.       *)
(***************************************************************************)
EXTENDS Integers, Sequences, FiniteSets, TLC

VARIABLES lookup, pre, op, prev

vars == <<lookup, pre, op, prev>>

(* ---------------- bounds and the key universe ---------------- *)

NumValues == 2
MaxItems == 3
MaxCap == 2

Values == 1..NumValues

\* "tk1".."tk4" of the tests, and "kt1", whose bytes XOR to the same value as "tk1"
\* (hash 46, 45, 44, 43 and 46)
tk1 == <<116, 107, 49>>
tk2 == <<116, 107, 50>>
tk3 == <<116, 107, 51>>
tk4 == <<116, 107, 52>>
kt1 == <<107, 116, 49>>

\* the keys the calls draw from; tk4 only occurs in the test scenario below
Keys == {tk1, tk2, tk3, kt1}

Pairs == {<<k, v>> : k \in Keys, v \in Values}

\* keys with small hashes: "\0" (0), "\x01" (1), "\x02" (2) and "\x03\x03" (0)
LowKeys == {<<0>>, <<1>>, <<2>>, <<3, 3>>}

RECURSIVE SeqsUpTo(_, _)
SeqsUpTo(S, n) ==
    IF n = 0 THEN {<<>>}
    ELSE LET shorter == SeqsUpTo(S, n - 1)
         IN  shorter \cup {Append(s, x) : s \in {t \in shorter : Len(t) = n - 1}, x \in S}

(* ---------------- Option<T> and the buckets ---------------- *)

None == [some |-> FALSE, v |-> 0]
Some(x) == [some |-> TRUE, v |-> x]

\* Option<Vec<(K, Box<V>)>>: one slot of the bucket vector
NoBucket == [some |-> FALSE, chain |-> <<>>]
SomeBucket(c) == [some |-> TRUE, chain |-> c]

(* ---------------- hash ---------------- *)

RECURSIVE Xor(_, _)
Xor(a, b) ==
    IF a = 0 THEN b
    ELSE IF b = 0 THEN a
    ELSE 2 * Xor(a \div 2, b \div 2) + (((a % 2) + (b % 2)) % 2)

RECURSIVE hashFold(_, _)
hashFold(state, input) ==
    IF input = <<>> THEN state
    ELSE hashFold(Xor(state, Head(input)) % 256, Tail(input))

hash(input) == hashFold(0, input)

(* ---------------- chains ---------------- *)

\* bucket.iter().enumerate().find(|(_, (k, _))| k == key): 0-based, -1 if none
FindIdx(chain, key) ==
    LET hits == {i \in 1..Len(chain) : chain[i][1] = key}
    IN  IF hits = {} THEN -1
        ELSE (CHOOSE i \in hits : \A j \in hits : i <= j) - 1

\* Vec::remove(idx), idx 0-based
VecRemove(chain, idx) ==
    [i \in 1..(Len(chain) - 1) |-> IF i <= idx THEN chain[i] ELSE chain[i + 1]]

\* Vec::resize_with(n, || None) on a vector shorter than n
resize_with(l, n) ==
    IF n <= Len(l) THEN SubSeq(l, 1, n)
    ELSE l \o [i \in 1..(n - Len(l)) |-> NoBucket]

(* ---------------- constructors ---------------- *)

new == <<>>

\* with_capacity, filling the vector with cap empty slots (vec![None; cap])
with_capacity_filled(cap) == [i \in 1..cap |-> NoBucket]

\* Vec::with_capacity(cap) reserves room but holds no slot: the vector's len() is 0
with_capacity(cap) == <<>>

(* ---------------- insert ---------------- *)

NoPanic == "none"

\* the resize of insert, done with an off-by-one length
grow_short(l, index) ==
    IF Len(l) <= index THEN resize_with(l, index) ELSE l

\* the resize of insert, done by replacing the vector with a fresh one
grow_fresh(l, index) ==
    IF Len(l) <= index THEN resize_with(<<>>, index + 1) ELSE l

\* the resize of insert, growing to at least twice the old length
grow_double(l, index) ==
    IF Len(l) <= index
    THEN resize_with(l, IF index + 1 >= 2 * Len(l) THEN index + 1 ELSE 2 * Len(l))
    ELSE l

\* the resize of insert, taken on every call: one more slot than needed or held
grow_eager(l, index) ==
    resize_with(l, (IF Len(l) <= index THEN index ELSE Len(l)) + 1)

\* the resize of insert, putting the new empty slots in front of the old ones
grow_front(l, index) ==
    IF Len(l) <= index THEN [i \in 1..(index + 1 - Len(l)) |-> NoBucket] \o l ELSE l

\* if self.lookup.len() <= index { self.lookup.resize_with(index + 1, || None) }
grow(l, index) ==
    IF Len(l) <= index THEN resize_with(l, index + 1) ELSE l

\* insert, appending to a chain that lacks the key
insert_append(l, key, value) ==
    LET index == hash(key)
        l1 == grow(l, index)
    IN  IF ~(index < Len(l1))
        THEN [lookup |-> l1, panic |-> "insert broken", idx |-> index, len |-> Len(l1)]
        ELSE LET bucket == l1[index + 1]
             IN  IF bucket.some
                 THEN LET existing_idx == FindIdx(bucket.chain, key)
                      IN  IF existing_idx = -1
                          THEN [lookup |-> [l1 EXCEPT ![index + 1] =
                                    SomeBucket(Append(bucket.chain, <<key, value>>))],
                                panic |-> NoPanic, idx |-> index, len |-> Len(l1)]
                          ELSE IF ~(existing_idx < Len(bucket.chain))
                          THEN [lookup |-> l1, panic |-> "insert broken (again)",
                                idx |-> index, len |-> Len(l1)]
                          ELSE [lookup |-> [l1 EXCEPT ![index + 1] =
                                    SomeBucket([bucket.chain EXCEPT
                                        ![existing_idx + 1] = <<key, value>>])],
                                panic |-> NoPanic, idx |-> index, len |-> Len(l1)]
                 ELSE [lookup |-> [l1 EXCEPT ![index + 1] = SomeBucket(<<<<key, value>>>>)],
                       panic |-> NoPanic, idx |-> index, len |-> Len(l1)]

\* insert, pushing a second entry for a key the chain already holds
insert_push(l, key, value) ==
    LET index == hash(key)
        l1 == grow(l, index)
    IN  IF ~(index < Len(l1))
        THEN [lookup |-> l1, panic |-> "insert broken", idx |-> index, len |-> Len(l1)]
        ELSE LET bucket == l1[index + 1]
             IN  IF bucket.some
                 THEN LET existing_idx == FindIdx(bucket.chain, key)
                      IN  IF existing_idx = -1
                          THEN [lookup |-> l1, panic |-> NoPanic,
                                idx |-> index, len |-> Len(l1)]
                          ELSE IF ~(existing_idx < Len(bucket.chain))
                          THEN [lookup |-> l1, panic |-> "insert broken (again)",
                                idx |-> index, len |-> Len(l1)]
                          ELSE [lookup |-> [l1 EXCEPT ![index + 1] =
                                    SomeBucket(Append(bucket.chain, <<key, value>>))],
                                panic |-> NoPanic, idx |-> index, len |-> Len(l1)]
                 ELSE [lookup |-> [l1 EXCEPT ![index + 1] = SomeBucket(<<<<key, value>>>>)],
                       panic |-> NoPanic, idx |-> index, len |-> Len(l1)]

insert(l, key, value) ==
    LET index == hash(key)
        l1 == grow(l, index)
    IN  IF ~(index < Len(l1))
        THEN [lookup |-> l1, panic |-> "insert broken", idx |-> index, len |-> Len(l1)]
        ELSE LET bucket == l1[index + 1]
             IN  IF bucket.some
                 THEN LET existing_idx == FindIdx(bucket.chain, key)
                      IN  IF existing_idx = -1
                          THEN [lookup |-> l1, panic |-> NoPanic,
                                idx |-> index, len |-> Len(l1)]
                          ELSE IF ~(existing_idx < Len(bucket.chain))
                          THEN [lookup |-> l1, panic |-> "insert broken (again)",
                                idx |-> index, len |-> Len(l1)]
                          ELSE [lookup |-> [l1 EXCEPT ![index + 1] =
                                    SomeBucket([bucket.chain EXCEPT
                                        ![existing_idx + 1] = <<key, value>>])],
                                panic |-> NoPanic, idx |-> index, len |-> Len(l1)]
                 ELSE [lookup |-> [l1 EXCEPT ![index + 1] = SomeBucket(<<<<key, value>>>>)],
                       panic |-> NoPanic, idx |-> index, len |-> Len(l1)]

(* ---------------- remove ---------------- *)

\* the search of remove, taking the first entry whatever its key
remove_find_first(chain, key) ==
    IF chain = <<>> THEN -1 ELSE 0

\* bucket.iter().enumerate().find(|(_, (k, _))| k == key) in remove
remove_find(chain, key) == FindIdx(chain, key)

\* the detaching step of remove, leaving the entry in its chain
detach_keep(l, index, idx) == l

\* the detaching step of remove, dropping the last slot when its chain becomes empty
detach_shrink(l, index, idx) ==
    LET d == [l EXCEPT ![index + 1] = SomeBucket(VecRemove(l[index + 1].chain, idx))]
    IN  IF index + 1 = Len(l) /\ d[index + 1].chain = <<>>
        THEN SubSeq(d, 1, Len(l) - 1)
        ELSE d

\* bucket.remove(idx) on the chain of slot index
detach(l, index, idx) ==
    [l EXCEPT ![index + 1] = SomeBucket(VecRemove(l[index + 1].chain, idx))]

\* remove, creating an empty chain in a slot that holds none
remove_lazy(l, key) ==
    LET index == hash(key)
    IN  IF ~(index < Len(l))
        THEN [lookup |-> l, res |-> None, idx |-> index, len |-> Len(l)]
        ELSE LET item == l[index + 1]
             IN  IF item.some
                 THEN LET idx == remove_find(item.chain, key)
                      IN  IF idx = -1
                          THEN [lookup |-> l, res |-> None, idx |-> index, len |-> Len(l)]
                          ELSE [lookup |-> detach(l, index, idx),
                                res |-> Some(item.chain[idx + 1][2]),
                                idx |-> index, len |-> Len(l)]
                 ELSE [lookup |-> [l EXCEPT ![index + 1] = SomeBucket(<<>>)],
                       res |-> None, idx |-> index, len |-> Len(l)]

remove(l, key) ==
    LET index == hash(key)
    IN  IF ~(index < Len(l))
        THEN [lookup |-> l, res |-> None, idx |-> index, len |-> Len(l)]
        ELSE LET item == l[index + 1]
             IN  IF item.some
                 THEN LET idx == remove_find(item.chain, key)
                      IN  IF idx = -1
                          THEN [lookup |-> l, res |-> None, idx |-> index, len |-> Len(l)]
                          ELSE [lookup |-> detach(l, index, idx),
                                res |-> Some(item.chain[idx + 1][2]),
                                idx |-> index, len |-> Len(l)]
                 ELSE [lookup |-> l, res |-> None, idx |-> index, len |-> Len(l)]

(* ---------------- get ---------------- *)

getCall(l, key) ==
    LET index == hash(key)
    IN  IF ~(index < Len(l))
        THEN [res |-> None, idx |-> index, len |-> Len(l)]
        ELSE LET item == l[index + 1]
             IN  IF item.some
                 THEN LET i == FindIdx(item.chain, key)
                      IN  IF i = -1
                          THEN [res |-> None, idx |-> index, len |-> Len(l)]
                          ELSE [res |-> Some(item.chain[i + 1][2]),
                                idx |-> index, len |-> Len(l)]
                 ELSE [res |-> None, idx |-> index, len |-> Len(l)]

get(l, key) == getCall(l, key).res

(* ---------------- Index<K> ---------------- *)

\* index, answering a missing key with an empty result instead of a panic
index_quiet(l, key) ==
    LET r == get(l, key)
    IN  [res |-> r, panic |-> NoPanic]

index(l, key) ==
    LET r == get(l, key)
    IN  IF r.some THEN [res |-> r, panic |-> NoPanic]
        ELSE [res |-> None, panic |-> "unwrap"]

(* ---------------- iter ---------------- *)

\* iter, stopping after the first chain that holds an entry
RECURSIVE iter_first(_)
iter_first(l) ==
    IF l = <<>> THEN <<>>
    ELSE IF Head(l).some /\ Head(l).chain # <<>> THEN Head(l).chain
    ELSE iter_first(Tail(l))

RECURSIVE iter(_)
iter(l) ==
    IF l = <<>> THEN <<>>
    ELSE (IF Head(l).some THEN Head(l).chain ELSE <<>>) \o iter(Tail(l))

(* ---------------- iter_mut ---------------- *)

\* iter_mut yields (&mut K, &mut V) for every entry, slot by slot; the caller
\* writes key k and value v through the n-th yielded pair (n = 0: no write)
RECURSIVE iter_mut(_, _, _, _)
iter_mut(l, n, k, v) ==
    IF l = <<>> THEN <<>>
    ELSE LET c == IF Head(l).some THEN Len(Head(l).chain) ELSE 0
         IN  IF 1 <= n /\ n <= c
             THEN <<SomeBucket([Head(l).chain EXCEPT ![n] = <<k, v>>])>> \o Tail(l)
             ELSE <<Head(l)>> \o iter_mut(Tail(l), n - c, k, v)

(* ---------------- From<[(K, V); N]> and FromIterator ---------------- *)

RECURSIVE fold_insert(_, _)
fold_insert(state, items) ==
    IF items = <<>> THEN state
    ELSE fold_insert(insert(state, Head(items)[1], Head(items)[2]).lookup, Tail(items))

from(value) == fold_insert(with_capacity(Len(value)), value)

from_iter(it) == fold_insert(new, it)

(* ---------------- the calls as actions ---------------- *)

NoKey == <<>>

OpRec(name, key, val, res, panic, idx, len, items) ==
    [name |-> name, key |-> key, val |-> val, res |-> res, panic |-> panic,
     idx |-> idx, len |-> len, items |-> items]

Start == OpRec("start", NoKey, 0, None, NoPanic, -1, -1, <<>>)

\* the key of call o if o was an insert
PrevOf(o) == IF o.name = "insert" THEN o.key ELSE NoKey

Init ==
    /\ lookup = <<>>
    /\ pre = <<>>
    /\ op = Start
    /\ prev = PrevOf(Start)

Constructed == op.name # "start"

New ==
    /\ ~Constructed
    /\ lookup' = new
    /\ pre' = lookup
    /\ op' = OpRec("new", NoKey, 0, None, NoPanic, -1, -1, <<>>)
    /\ prev' = PrevOf(op)

WithCapacity ==
    /\ ~Constructed
    /\ \E cap \in 0..MaxCap :
        /\ lookup' = with_capacity(cap)
        /\ op' = OpRec("with_capacity", NoKey, cap, None, NoPanic, -1, -1, <<>>)
    /\ pre' = lookup
    /\ prev' = PrevOf(op)

From ==
    /\ ~Constructed
    /\ \E value \in SeqsUpTo(Pairs, MaxItems) :
        /\ lookup' = from(value)
        /\ op' = OpRec("from", NoKey, 0, None, NoPanic, -1, -1, value)
    /\ pre' = lookup
    /\ prev' = PrevOf(op)

FromIter ==
    /\ ~Constructed
    /\ \E it \in SeqsUpTo(Pairs, MaxItems) :
        /\ lookup' = from_iter(it)
        /\ op' = OpRec("from_iter", NoKey, 0, None, NoPanic, -1, -1, it)
    /\ pre' = lookup
    /\ prev' = PrevOf(op)

Insert ==
    /\ Constructed
    /\ \E key \in Keys, value \in Values :
        LET r == insert(lookup, key, value)
        IN  /\ lookup' = r.lookup
            /\ op' = OpRec("insert", key, value, None, r.panic, r.idx, r.len, <<>>)
    /\ pre' = lookup
    /\ prev' = PrevOf(op)

Remove ==
    /\ Constructed
    /\ \E key \in Keys :
        LET r == remove(lookup, key)
        IN  /\ lookup' = r.lookup
            /\ op' = OpRec("remove", key, 0, r.res, NoPanic, r.idx, r.len, <<>>)
    /\ pre' = lookup
    /\ prev' = PrevOf(op)

Get ==
    /\ Constructed
    /\ \E key \in Keys :
        LET r == getCall(lookup, key)
        IN  op' = OpRec("get", key, 0, r.res, NoPanic, r.idx, r.len, <<>>)
    /\ lookup' = lookup
    /\ pre' = lookup
    /\ prev' = PrevOf(op)

Index ==
    /\ Constructed
    /\ \E key \in Keys :
        LET r == index(lookup, key)
        IN  op' = OpRec("index", key, 0, r.res, r.panic, -1, -1, <<>>)
    /\ lookup' = lookup
    /\ pre' = lookup
    /\ prev' = PrevOf(op)

Iter ==
    /\ Constructed
    /\ op' = OpRec("iter", NoKey, 0, None, NoPanic, -1, -1, iter(lookup))
    /\ lookup' = lookup
    /\ pre' = lookup
    /\ prev' = PrevOf(op)

Next ==
    \/ New
    \/ WithCapacity
    \/ From
    \/ FromIter
    \/ Insert
    \/ Remove
    \/ Get
    \/ Index
    \/ Iter

Spec == Init /\ [][Next]_vars

\* insert and remove called with the keys of small hash
InsertLow ==
    /\ Constructed
    /\ \E key \in LowKeys, value \in Values :
        LET r == insert(lookup, key, value)
        IN  /\ lookup' = r.lookup
            /\ op' = OpRec("insert", key, value, None, r.panic, r.idx, r.len, <<>>)
    /\ pre' = lookup
    /\ prev' = PrevOf(op)

RemoveLow ==
    /\ Constructed
    /\ \E key \in LowKeys :
        LET r == remove(lookup, key)
        IN  /\ lookup' = r.lookup
            /\ op' = OpRec("remove", key, 0, r.res, NoPanic, r.idx, r.len, <<>>)
    /\ pre' = lookup
    /\ prev' = PrevOf(op)

NextLow ==
    \/ New
    \/ InsertLow
    \/ RemoveLow

SpecLow == Init /\ [][NextLow]_vars

\* a mutable traversal during which the caller writes through one yielded pair
IterMut ==
    /\ Constructed
    /\ \E n \in 1..Len(iter(lookup)), k \in Keys, v \in Values :
        /\ lookup' = iter_mut(lookup, n, k, v)
        /\ op' = OpRec("iter_mut", k, v, None, NoPanic, -1, -1, iter(lookup))
    /\ pre' = lookup
    /\ prev' = PrevOf(op)

\* a map built from a sequence of pairs and then traversed mutably
NextMut ==
    \/ FromIter
    \/ IterMut

SpecMut == Init /\ [][NextMut]_vars


(* ---------------- derived quantities ---------------- *)

\* the number of stored entries: the sum of the chain lengths
RECURSIVE len(_)
len(l) ==
    IF l = <<>> THEN 0
    ELSE (IF Head(l).some THEN Len(Head(l).chain) ELSE 0) + len(Tail(l))

\* the bucket-array length
capacity(l) == Len(l)

TypeOK ==
    /\ \A i \in 1..Len(lookup) : lookup[i].some \in BOOLEAN
    /\ op.key \in Keys \cup {NoKey}

\* the keys for which get returns a value
KeysMapped(l) == {k \in Keys : get(l, k).some}

\* the (key, value) pairs held by the chains
Entries(l) == {iter(l)[i] : i \in 1..Len(iter(l))}

\* the map of get_test_map(): tk1..tk4 inserted, tk2 twice, with values tv1..tv4
TestItems == <<<<tk1, 1>>, <<tk2, 2>>, <<tk2, 2>>, <<tk3, 3>>, <<tk4, 4>>>>

(* ---------------- C1 ---------------- *)

\* C1: immediately after insert(k, v), get(k) returns v, for every key and
\* every reachable state (also when another key with the same hash is stored,
\* and when k was stored and then removed).
C1_RoundTrip ==
    op.name = "insert" => get(lookup, op.key) = Some(op.val)

(* ---------------- C2 ---------------- *)

\* C2: after insert(k, v1); insert(k, v2), get(k) returns v2 and the number of
\* stored entries is the same after the second insert as after the first.
C2_Overwrite ==
    (op.name = "insert" /\ prev = op.key) =>
        /\ get(lookup, op.key) = Some(op.val)
        /\ len(lookup) = len(pre)

(* ---------------- C3 ---------------- *)

\* C3: after insert(k, v); remove(k), get(k) returns None and a second
\* remove(k) returns None as well.
C3_Removal ==
    (op.name = "remove" /\ prev = op.key) =>
        /\ get(lookup, op.key) = None
        /\ remove(lookup, op.key).res = None

C3_Witness ==
    /\ op.name = "remove"
    /\ prev = op.key
    /\ op.res.some
    /\ len(lookup) >= 1

(* ---------------- C4 ---------------- *)

\* C4: remove(k) returns what get(k) returned just before the call; when that
\* is Some(v) the number of stored entries drops by exactly one and only k's
\* entry is detached; it is None exactly when get(k) was None.  In the test
\* scenario remove("tk1") returns Some("tv1") and the count goes from 4 to 3.
C4_RemoveReturnsGet ==
    /\ op.name = "remove" =>
        /\ op.res = get(pre, op.key)
        /\ op.res.some =>
            /\ len(lookup) = len(pre) - 1
            /\ Entries(lookup) = Entries(pre) \ {<<op.key, op.res.v>>}
            /\ Len(lookup) = Len(pre)
            /\ \A i \in 1..Len(pre) : i # hash(op.key) + 1 => lookup[i] = pre[i]
            /\ \A k \in Keys \ {op.key} : get(lookup, k) = get(pre, k)
    /\ LET m == from_iter(TestItems)
           r == remove(m, tk1)
       IN  /\ len(m) = 4
           /\ r.res = Some(1)
           /\ len(r.lookup) = 3
           /\ get(r.lookup, tk1) = None

C4_Witness ==
    /\ op.name = "remove"
    /\ op.res.some
    /\ len(pre) = 3
    /\ len(lookup) = 2

(* ---------------- C5 ---------------- *)

\* C5: remove(k) of a key that is not present returns None and leaves the
\* bucket array, every chain, the entry count and the capacity unchanged.
C5_RemoveAbsentFrame ==
    (op.name = "remove" /\ ~get(pre, op.key).some) =>
        /\ ~op.res.some
        /\ lookup = pre
        /\ len(lookup) = len(pre)
        /\ capacity(lookup) = capacity(pre)

\* a remove that found the slot of its key empty, in a map that holds entries
C5_Witness ==
    /\ op.name = "remove"
    /\ ~op.res.some
    /\ op.idx < op.len
    /\ ~pre[op.idx + 1].some
    /\ len(pre) >= 1

(* ---------------- C6 ---------------- *)

\* C6: the number of stored entries equals the number of distinct keys for
\* which get returns a value and the number of pairs of one full iter(); every
\* such key appears in that iteration exactly once, with the value of get.
C6_CountInvariant ==
    LET it == iter(lookup)
    IN  /\ len(lookup) = Cardinality(KeysMapped(lookup))
        /\ len(lookup) = Len(it)
        /\ \A k \in KeysMapped(lookup) :
            /\ Cardinality({i \in 1..Len(it) : it[i][1] = k}) = 1
            /\ \A i \in 1..Len(it) : it[i][1] = k => Some(it[i][2]) = get(lookup, k)
        /\ op.name = "iter" => op.items = it

\* an iteration over a map with two entries and an emptied chain
C6_Witness ==
    /\ op.name = "iter"
    /\ Len(op.items) = 2
    /\ \E i \in 1..Len(lookup) : lookup[i].some /\ lookup[i].chain = <<>>

(* ---------------- C7 ---------------- *)

\* the value of the last pair of items whose key is k
LastValue(items, k) ==
    LET hits == {i \in 1..Len(items) : items[i][1] = k}
    IN  items[CHOOSE i \in hits : \A j \in hits : j <= i][2]

\* C7: a map built from an array or a sequence of pairs answers get like an
\* empty map on which insert was called for each pair in order; a key that
\* occurs more than once in the input is stored once, with its last value
\* (from [("a",1), ("a",2)] gives one entry and get("a") = Some(2)).
C7_BulkConstruction ==
    /\ op.name \in {"from", "from_iter"} =>
        /\ \A k \in Keys : get(lookup, k) = get(fold_insert(new, op.items), k)
        /\ \A k \in Keys :
            Cardinality({i \in 1..Len(op.items) : op.items[i][1] = k}) >= 2 =>
                /\ get(lookup, k) = Some(LastValue(op.items, k))
                /\ Cardinality({i \in 1..Len(iter(lookup)) : iter(lookup)[i][1] = k}) = 1
    /\ LET m == from(<<<<<<97>>, 1>>, <<<<97>>, 2>>>>)
       IN  len(m) = 1 /\ get(m, <<97>>) = Some(2)

(* ---------------- C8 ---------------- *)

\* C8: map[k] returns the value of get(k) whenever get(k) is Some and panics
\* exactly when get(k) is None; it never returns a sentinel and never
\* modifies the map.
C8_IndexedLookup ==
    op.name = "index" =>
        /\ get(pre, op.key).some => (op.panic = NoPanic /\ op.res = get(pre, op.key))
        /\ ~get(pre, op.key).some => (op.panic # NoPanic /\ ~op.res.some)
        /\ lookup = pre

\* map[k] on a key that is missing from a map holding another key of the same hash
C8_Witness ==
    /\ op.name = "index"
    /\ op.panic # NoPanic
    /\ \E k \in Keys : hash(k) = hash(op.key) /\ get(lookup, k).some

(* ---------------- C9 ---------------- *)

C10_AccessInRange ==
    /\ op.name = "insert" => op.panic = NoPanic
    /\ op.name \in {"insert", "get", "remove"} => (0 <= op.idx /\ op.idx < op.len)

\* C10 amended: insert never aborts and its bucket-array access uses an index
\* inside [0, capacity); get and remove look the slot up with a checked access
\* whose index may be >= capacity, and then return None, abort nothing and
\* leave the map unchanged.
C10_InsertNeverAborts ==
    /\ op.name = "insert" =>
        /\ op.panic = NoPanic
        /\ 0 <= op.idx /\ op.idx < op.len
        /\ op.len = Len(lookup)
        /\ op.idx = hash(op.key)
    /\ op.name \in {"get", "remove"} =>
        /\ op.panic = NoPanic
        /\ op.len = Len(pre)
        /\ op.idx = hash(op.key)
        /\ op.idx >= op.len => (~op.res.some /\ lookup = pre)

\* an insert whose index was beyond the end of the bucket array before the call
C10_Witness ==
    /\ op.name = "insert"
    /\ op.idx >= Len(pre)
    /\ Len(pre) > 0
    /\ op.panic = NoPanic

(* ---------------- C11 ---------------- *)

\* the keys held by the chain of slot i (1-based) of l
SlotKeys(l, i) == {l[i].chain[j][1] : j \in 1..Len(l[i].chain)}

\* C11: a mutable traversal changes no stored key: the keys and the bucket
\* each key lives in are the same before and after it.
C11_IterMutKeepsKeys ==
    op.name = "iter_mut" =>
        /\ Len(lookup) = Len(pre)
        /\ \A i \in 1..Len(pre) : SlotKeys(lookup, i) = SlotKeys(pre, i)

(* ---------------- C12 ---------------- *)

\* C12 as stated: the capacity (bucket-array length) is non-zero after new()
\* and after with_capacity(c) with c >= 1, and stays > 0 afterwards.
C12_CapacityPositive ==
    Constructed => capacity(lookup) > 0

\* C12 amended: new() and with_capacity(c) give a bucket array of length 0,
\* whatever c is; the length is > 0 after every insert, and once it is > 0
\* it stays > 0.
C12_CapacityAfterConstruction ==
    /\ op.name \in {"new", "with_capacity"} => capacity(lookup) = 0
    /\ op.name = "insert" => capacity(lookup) > 0
    /\ capacity(pre) > 0 => capacity(lookup) > 0

\* a map built by with_capacity(c), c >= 1
C12_Witness ==
    /\ op.name = "with_capacity"
    /\ op.val >= 1
    /\ capacity(lookup) = 0

(* ---------------- C13 ---------------- *)

\* C13 as stated: the bucket array grows exactly when an insert adds a new
\* key and count / capacity >= 0.7 holds before it, and a capacity that
\* changes across an insert is exactly doubled.
C13_ResizePolicy ==
    op.name = "insert" =>
        /\ (capacity(lookup) # capacity(pre)) <=>
              (~get(pre, op.key).some /\ 10 * len(pre) >= 7 * capacity(pre))
        /\ capacity(lookup) # capacity(pre) => capacity(lookup) = 2 * capacity(pre)

\* C13 amended: the bucket array grows exactly when the index hash(k) of an
\* insert is at or beyond the current capacity; the growth happens before the
\* entry is added (the entry lands in the grown array, the old slots are kept
\* and the other new slots are empty), and the new capacity is hash(k) + 1.
C13_GrowToIndex ==
    op.name = "insert" =>
        /\ (capacity(lookup) # capacity(pre)) <=> (hash(op.key) >= capacity(pre))
        /\ capacity(lookup) # capacity(pre) =>
            /\ capacity(lookup) = hash(op.key) + 1
            /\ \A i \in 1..Len(pre) : lookup[i] = pre[i]
            /\ \A i \in (Len(pre) + 1)..hash(op.key) : lookup[i] = NoBucket
            /\ lookup[hash(op.key) + 1] = SomeBucket(<<<<op.key, op.val>>>>)

\* an insert that grew a bucket array of 45 slots holding an entry to 47 slots
C13_Witness ==
    /\ op.name = "insert"
    /\ capacity(pre) = 45
    /\ capacity(lookup) = 47
    /\ 10 * len(pre) < 7 * capacity(pre)
    /\ len(pre) >= 1

(* ---------------- C14 ---------------- *)

\* C14 as stated: immediately after an insert of a new key the number of
\* stored entries divided by the capacity is below 0.7 plus a small epsilon
\* (0.05 here).
C14_LoadFactorBound ==
    (op.name = "insert" /\ ~get(pre, op.key).some /\ get(lookup, op.key).some) =>
        100 * len(lookup) < 75 * capacity(lookup)

\* C14 amended: immediately after an insert of a new key the number of stored
\* entries is at most the capacity (a load of 1 is reached), each such insert
\* adds exactly one entry, and no 0.7 bound holds.
C14_LoadAtMostOne ==
    (op.name = "insert" /\ ~get(pre, op.key).some) =>
        /\ len(lookup) <= capacity(lookup)
        /\ len(lookup) <= len(pre) + 1

\* an insert of a new key that leaves every slot of the bucket array occupied
C14_Witness ==
    /\ op.name = "insert"
    /\ ~get(pre, op.key).some
    /\ get(lookup, op.key).some
    /\ len(lookup) = 3
    /\ capacity(lookup) = 3

(* ---------------- C15 ---------------- *)

\* C15: insert(k, v) of a key that is not present appends the entry (k, v) to
\* the chain of k's bucket, creating the chain if the slot was empty and
\* appending if the slot already holds a chain, and adds exactly one entry.
C15_InsertAppends ==
    (op.name = "insert" /\ ~get(pre, op.key).some) =>
        LET i == hash(op.key) + 1
            old == IF i <= Len(pre) /\ pre[i].some THEN pre[i].chain ELSE <<>>
        IN  /\ len(lookup) = len(pre) + 1
            /\ i <= Len(lookup)
            /\ lookup[i] = SomeBucket(Append(old, <<op.key, op.val>>))

(* ---------------- C16 ---------------- *)

\* C16: an insert of a key that is present never resizes: the capacity and
\* the entry count are unchanged and no entry other than k's changes.
C16_OverwriteNoResize ==
    (op.name = "insert" /\ get(pre, op.key).some) =>
        LET i == hash(op.key) + 1
        IN  /\ capacity(lookup) = capacity(pre)
            /\ len(lookup) = len(pre)
            /\ \A j \in 1..Len(pre) : j # i => lookup[j] = pre[j]
            /\ lookup[i].some
            /\ Len(lookup[i].chain) = Len(pre[i].chain)
            /\ \A j \in 1..Len(pre[i].chain) :
                   lookup[i].chain[j] =
                       IF pre[i].chain[j][1] = op.key THEN <<op.key, op.val>>
                       ELSE pre[i].chain[j]
            /\ \A k \in Keys \ {op.key} : get(lookup, k) = get(pre, k)

\* an overwrite with a new value of the key in the last slot of a map with two entries
C16_Witness ==
    /\ op.name = "insert"
    /\ get(pre, op.key).some
    /\ get(pre, op.key) # Some(op.val)
    /\ get(lookup, op.key) = Some(op.val)
    /\ hash(op.key) + 1 = capacity(pre)
    /\ len(pre) = 2

(* ---------------- C17 ---------------- *)

C18_KeyUniqueness ==
    /\ \A i \in 1..Len(lookup) : \A a, b \in 1..Len(lookup[i].chain) :
           lookup[i].chain[a][1] = lookup[i].chain[b][1] => a = b
    /\ \A i, j \in 1..Len(lookup) :
           i # j => SlotKeys(lookup, i) \cap SlotKeys(lookup, j) = {}

\* a map built from three pairs, the first and the last with the same key
C18_Witness ==
    /\ op.name = "from"
    /\ Len(op.items) = 3
    /\ op.items[1][1] = op.items[3][1]
    /\ op.items[1][2] # op.items[3][2]
    /\ len(lookup) = 2

(* ---------------- C19 ---------------- *)

\* C19: the capacity never decreases from one call to the next, and remove
\* leaves it as it is, whether or not it finds the key.
C19_CapacityNeverShrinks ==
    [][/\ capacity(lookup') >= capacity(lookup)
       /\ op'.name = "remove" => capacity(lookup') = capacity(lookup)]_vars

\* a remove that emptied the whole map, whose last slot held the entry
C19_Witness ==
    /\ op.name = "remove"
    /\ op.res.some
    /\ op.idx + 1 = capacity(pre)
    /\ len(lookup) = 0
    /\ capacity(lookup) = capacity(pre)
    /\ capacity(lookup) > 0

(* ---------------- C20 ---------------- *)

\* C20: every chain holds at most one entry (a slot is None, Some(empty
\* chain) or Some(chain of length 1)), so the number of stored entries never
\* exceeds the capacity nor the number of distinct hash values.
C20_ChainsAtMostOne ==
    /\ \A i \in 1..Len(lookup) :
        /\ Len(lookup[i].chain) <= 1
        /\ ~lookup[i].some => lookup[i].chain = <<>>
    /\ len(lookup) <= capacity(lookup)
    /\ len(lookup) <= Cardinality({hash(k) : k \in Keys})

\* an insert of a fourth key that was dropped: three chains of one entry each
C20_Witness ==
    /\ op.name = "insert"
    /\ ~get(lookup, op.key).some
    /\ len(lookup) = Cardinality({hash(k) : k \in Keys})
    /\ \A i \in 1..Len(lookup) : lookup[i].some => Len(lookup[i].chain) = 1

====
